---------------------------- MODULE Spec2Model ----------------------------
(***************************************************************************)
(* Model of mBARTapi/main.py: the token-level correction differ            *)
(* (highlight_errors, get_corrections), the two request handlers built on  *)
(* it (post_home, correct_text) and the process-wide multilingual          *)
(* tokenizer they share (mbart_tokenizer.src_lang).                        *)
(*                                                                         *)
(* A Python str is a sequence of one-character strings.  The four literal  *)
(* pieces of markup of highlight_errors are kept as one element each, so   *)
(* that a fragment's structure stays visible in the rendered string.       *)
(*                                                                         *)
(* Three specifications share the module:                                  *)
(*   Spec        highlight_errors and get_corrections called on a bounded  *)
(*               pair of input strings;                                    *)
(*   ConcSpec    several calls of the two functions run statement by       *)
(*               statement under every interleaving (threads);             *)
(*   ServerSpec  the handlers as coroutines on one event loop.             *)
(***************************************************************************)
EXTENDS Integers, Sequences, FiniteSets, TLC

VARIABLES
    \* ---- Spec: one call of the differ
    original,            \* argument `original`
    corrected,           \* argument `corrected`
    called,              \* the functions called so far on these arguments
    raised,              \* those of them that ended in an exception
    highlighted,         \* local list `highlighted` at the return (line 51)
    result,              \* the str highlight_errors returned  (line 57)
    corrected_tokens,    \* first component get_corrections returned (line 67)
    corrections,         \* second component get_corrections returned (line 67)
    \* ---- ConcSpec: the call frames of concurrent invocations
    frames,
    \* ---- ServerSpec: requests served by the event loop
    pc,                  \* each request's position in its handler
    request,             \* each request's endpoint, text and lang_code
    running,             \* the task that holds the event loop: {r}, or NoTask
    mbart_src_lang,      \* mbart_tokenizer.src_lang, process-wide (line 17, 35)
    encoded_lang,        \* the src_lang each request's text was encoded under
    forced_bos,          \* the lang code each request generated with (line 42)
    corrected_text,      \* what the oracle returned to each request
    response             \* what each handler returned

differVars == <<original, corrected, called, raised, highlighted, result,
                corrected_tokens, corrections>>
serverVars == <<pc, request, running, mbart_src_lang, encoded_lang,
                forced_bos, corrected_text, response>>
vars == <<differVars, frames, serverVars>>

-----------------------------------------------------------------------------
(* Bounds of the checked instances.                                        *)

MaxTokens == 3        \* most tokens of an input string of Spec
NumInvocations == 2   \* concurrent calls of ConcSpec
NumRequests == 2      \* requests of ServerSpec

-----------------------------------------------------------------------------
(* Python values.                                                          *)

\* The characters str.split() treats as white space (the ASCII ones that
\* a TLA+ string can hold).
Whitespace == {" ", "\t", "\n", "\r", "\f"}

IsSpace(ch) == ch \in Whitespace

Min(a, b) == IF a <= b THEN a ELSE b

\* "ab" etc. as a str of the model.
Tok_a == <<"a">>
Tok_A == <<"A">>
Tok_ab == <<"a", "b">>
Tokens == {Tok_a, Tok_A, Tok_ab}

EmptyStr == <<>>
EmptyDict == [k \in {} |-> EmptyStr]

\* str.split() with no separator: runs of white space separate the tokens,
\* leading and trailing white space yields no empty token.
RECURSIVE SplitFrom(_, _, _, _)
SplitFrom(s, i, cur, acc) ==
    IF i > Len(s)
    THEN IF cur = EmptyStr THEN acc ELSE Append(acc, cur)
    ELSE IF IsSpace(s[i])
         THEN SplitFrom(s, i + 1, EmptyStr,
                        IF cur = EmptyStr THEN acc ELSE Append(acc, cur))
         ELSE SplitFrom(s, i + 1, Append(cur, s[i]), acc)

Split(s) == SplitFrom(s, 1, EmptyStr, <<>>)

\* " ".join(parts)
RECURSIVE JoinFrom(_, _)
JoinFrom(parts, i) ==
    IF i > Len(parts) THEN EmptyStr
    ELSE IF i = Len(parts) THEN parts[i]
    ELSE parts[i] \o <<" ">> \o JoinFrom(parts, i + 1)

\* "".join(parts): the separator forgotten.
RECURSIVE ConcatFrom(_, _)
ConcatFrom(parts, i) ==
    IF i > Len(parts) THEN EmptyStr ELSE parts[i] \o ConcatFrom(parts, i + 1)

JoinNoSeparator(parts) == ConcatFrom(parts, 1)

Join(parts) == JoinFrom(parts, 1)

\* zip(a, b): pairs up to the shorter list; never raises.
ZipShortest(a, b) ==
    [raises |-> FALSE,
     pairs |-> [i \in 1..Min(Len(a), Len(b)) |-> <<a[i], b[i]>>]]

\* itertools.zip_longest(a, b, fillvalue=""): pairs up to the longer list.
ZipLongest(a, b) ==
    [raises |-> FALSE,
     pairs |-> [i \in 1..(IF Len(a) >= Len(b) THEN Len(a) ELSE Len(b)) |->
                  <<IF i <= Len(a) THEN a[i] ELSE EmptyStr,
                    IF i <= Len(b) THEN b[i] ELSE EmptyStr>>]]

\* for i in range(len(a)): a[i], b[i] -- IndexError when b is the shorter.
ZipByIndex(a, b) ==
    [raises |-> Len(a) > Len(b),
     pairs |-> [i \in 1..Min(Len(a), Len(b)) |-> <<a[i], b[i]>>]]

Zip(a, b) == ZipShortest(a, b)

\* str.lower() on the characters of the model.
Lower(s) == [i \in DOMAIN s |-> IF s[i] = "A" THEN "a" ELSE s[i]]

\* o_token.lower() != c_token.lower(): a comparison that folds case.
TokensDifferIgnoreCase(o_token, c_token) == Lower(o_token) /= Lower(c_token)

\* o_token != c_token
TokensDiffer(o_token, c_token) == o_token /= c_token

\* The literal pieces of the f-string of line 54.
DelOpen == <<"<del style='color:red;'>">>
DelClose == <<"</del>">>
SpanOpen == <<"<span style='color:green;'>">>
SpanClose == <<"</span>">>
Markup == {DelOpen[1], DelClose[1], SpanOpen[1], SpanClose[1]}

\* f"<del style='color:red;'>{o_token}</del> <span style='color:green;'>{c_token}</span>"
MarkedFragment(o_token, c_token) ==
    DelOpen \o o_token \o DelClose \o <<" ">> \o SpanOpen \o c_token \o SpanClose

\* One turn of the loop of highlight_errors.
HighlightStep(acc, o_token, c_token) ==
    IF TokensDiffer(o_token, c_token)
    THEN Append(acc, MarkedFragment(o_token, c_token))
    ELSE Append(acc, o_token)

\* d[k] = v
DictSet(d, k, v) == [x \in (DOMAIN d) \cup {k} |-> IF x = k THEN v ELSE d[x]]

\* d.setdefault(k, v): the first value of a key is kept.
DictSetDefault(d, k, v) == IF k \in DOMAIN d THEN d ELSE DictSet(d, k, v)

\* corrections[o_token] = c_token
Put(d, k, v) == DictSet(d, k, v)

\* One turn of the loop of get_corrections with the test of line 65 left out.
CorrectionsStepUnguarded(acc, o_token, c_token) == Put(acc, o_token, c_token)

\* One turn of the loop of get_corrections.
CorrectionsStep(acc, o_token, c_token) ==
    IF TokensDiffer(o_token, c_token) THEN Put(acc, o_token, c_token) ELSE acc

\* The loop of highlight_errors over the zipped pairs, from pair i on.
RECURSIVE HighlightLoop(_, _, _)
HighlightLoop(pairs, i, acc) ==
    IF i > Len(pairs) THEN acc
    ELSE HighlightLoop(pairs, i + 1, HighlightStep(acc, pairs[i][1], pairs[i][2]))

\* The loop of get_corrections over the zipped pairs, from pair i on.
RECURSIVE CorrectionsLoop(_, _, _)
CorrectionsLoop(pairs, i, acc) ==
    IF i > Len(pairs) THEN acc
    ELSE CorrectionsLoop(pairs, i + 1, CorrectionsStep(acc, pairs[i][1], pairs[i][2]))

\* highlight_errors(original, corrected): the locals at the return and the
\* outcome (the returned str, or an exception escaping the loop).
highlight_errors(o, c) ==
    LET original_tokens == Split(o)
        corrected_tokens_ == Split(c)
        z == Zip(original_tokens, corrected_tokens_)
        hl == HighlightLoop(z.pairs, 1, <<>>)
    IN  [raises |-> z.raises,
         highlighted |-> hl,
         value |-> IF z.raises THEN EmptyStr ELSE Join(hl)]

\* get_corrections with the returned token list cut to the paired positions.
get_corrections_truncated(o, c) ==
    LET original_tokens == Split(o)
        corrected_tokens_ == Split(c)
        z == Zip(original_tokens, corrected_tokens_)
    IN  [raises |-> z.raises,
         corrected_tokens |-> [i \in 1..Len(z.pairs) |-> z.pairs[i][2]],
         corrections |-> CorrectionsLoop(z.pairs, 1, EmptyDict)]

\* get_corrections(original, corrected)
get_corrections(o, c) ==
    LET original_tokens == Split(o)
        corrected_tokens_ == Split(c)
        z == Zip(original_tokens, corrected_tokens_)
    IN  [raises |-> z.raises,
         corrected_tokens |-> IF z.raises THEN <<>> ELSE corrected_tokens_,
         corrections |-> IF z.raises THEN EmptyDict
                         ELSE CorrectionsLoop(z.pairs, 1, EmptyDict)]

-----------------------------------------------------------------------------
(* Inputs of Spec: every list of at most MaxTokens tokens, laid out with   *)
(* single spaces or with leading, repeated, mixed and trailing white space.*)

TokenLists == UNION {[1..n -> Tokens] : n \in 0..MaxTokens}

PlainLayout == [lead |-> <<>>, sep |-> <<" ">>, trail |-> <<>>]
MessyLayout == [lead |-> <<" ">>, sep |-> <<"\t", " ">>, trail |-> <<"\n">>]
Layouts == {PlainLayout, MessyLayout}

RECURSIVE RenderFrom(_, _, _)
RenderFrom(ts, i, sep) ==
    IF i > Len(ts) THEN <<>>
    ELSE IF i = Len(ts) THEN ts[i]
    ELSE ts[i] \o sep \o RenderFrom(ts, i + 1, sep)

Render(ts, lay) == lay.lead \o RenderFrom(ts, 1, lay.sep) \o lay.trail

Inputs == {Render(ts, lay) : ts \in TokenLists, lay \in Layouts}


-----------------------------------------------------------------------------
(* States in which a part of the program has not started.                  *)

DifferIdle ==
    /\ original = EmptyStr
    /\ corrected = EmptyStr
    /\ called = {}
    /\ raised = {}
    /\ highlighted = <<>>
    /\ result = EmptyStr
    /\ corrected_tokens = <<>>
    /\ corrections = EmptyDict

Invocations == 1..NumInvocations

IdleFrame ==
    [pc |-> "idle", fn |-> "none",
     original |-> EmptyStr, corrected |-> EmptyStr,
     original_tokens |-> <<>>, corrected_tokens |-> <<>>,
     highlighted |-> <<>>, corrections |-> EmptyDict,
     it |-> 0,
     ret_str |-> EmptyStr, ret_tokens |-> <<>>, ret_corrections |-> EmptyDict]

FramesIdle == frames = [i \in Invocations |-> IdleFrame]

Requests == 1..NumRequests
NoTask == {}

NoRequest == [endpoint |-> "none", text |-> EmptyStr, lang_code |-> "none"]
NoResponse == [kind |-> "none"]

ServerIdle ==
    /\ pc = [r \in Requests |-> "new"]
    /\ request = [r \in Requests |-> NoRequest]
    /\ running = NoTask
    /\ mbart_src_lang = "en_XX"
    /\ encoded_lang = [r \in Requests |-> "none"]
    /\ forced_bos = [r \in Requests |-> "none"]
    /\ corrected_text = [r \in Requests |-> EmptyStr]
    /\ response = [r \in Requests |-> NoResponse]

-----------------------------------------------------------------------------
(* Spec: the differ called on one pair of strings.                         *)

Init ==
    /\ original \in Inputs
    /\ corrected \in Inputs
    /\ called = {}
    /\ raised = {}
    /\ highlighted = <<>>
    /\ result = EmptyStr
    /\ corrected_tokens = <<>>
    /\ corrections = EmptyDict
    /\ FramesIdle
    /\ ServerIdle

\* A call highlight_errors(original, corrected), lines 48-57.
CallHighlightErrors ==
    /\ "highlight_errors" \notin called
    /\ LET r == highlight_errors(original, corrected)
       IN  /\ highlighted' = r.highlighted
           /\ result' = r.value
           /\ raised' = IF r.raises THEN raised \cup {"highlight_errors"} ELSE raised
    /\ called' = called \cup {"highlight_errors"}
    /\ UNCHANGED <<original, corrected, corrected_tokens, corrections>>
    /\ UNCHANGED <<frames, serverVars>>

\* A call get_corrections(original, corrected), lines 60-67.
CallGetCorrections ==
    /\ "get_corrections" \notin called
    /\ LET r == get_corrections(original, corrected)
       IN  /\ corrected_tokens' = r.corrected_tokens
           /\ corrections' = r.corrections
           /\ raised' = IF r.raises THEN raised \cup {"get_corrections"} ELSE raised
    /\ called' = called \cup {"get_corrections"}
    /\ UNCHANGED <<original, corrected, highlighted, result>>
    /\ UNCHANGED <<frames, serverVars>>

-----------------------------------------------------------------------------
(* Reference notions the claims are stated with.  They are defined by      *)
(* position, independently of the operators that model the code.           *)

\* The tokens of a string: its maximal runs of characters that are not
\* white space, in order.
TokenStarts(s) ==
    {i \in 1..Len(s) : ~IsSpace(s[i]) /\ (i = 1 \/ IsSpace(s[i - 1]))}

TokenEnd(s, i) ==
    CHOOSE j \in i..Len(s) :
        /\ \A k \in i..j : ~IsSpace(s[k])
        /\ (j = Len(s) \/ IsSpace(s[j + 1]))

NthStart(starts, n) ==
    CHOOSE i \in starts : Cardinality({x \in starts : x < i}) = n - 1

WordsOf(s) ==
    LET starts == TokenStarts(s)
    IN  [n \in 1..Cardinality(starts) |->
            LET b == NthStart(starts, n) IN SubSeq(s, b, TokenEnd(s, b))]

\* The parts with exactly one space between neighbours.
SingleSpaced(parts) ==
    LET f[n \in 0..Len(parts)] ==
            IF n = 0 THEN <<>>
            ELSE IF n = 1 THEN parts[1]
            ELSE f[n - 1] \o <<" ">> \o parts[n]
    IN  f[Len(parts)]

Take(seq, n) == SubSeq(seq, 1, n)

PairedIndices(ow, cw) == 1..Min(Len(ow), Len(cw))

HighlightCalled == "highlight_errors" \in called
DiffCalled == "get_corrections" \in called

\* The fragment the specification asks for at a position that holds the
\* original token o and the corrected token c.
ExpectedFragment(o, c) ==
    IF o = c THEN o
    ELSE <<"<del style='color:red;'>">> \o o \o <<"</del>">> \o <<" ">>
         \o <<"<span style='color:green;'>">> \o c \o <<"</span>">>

\* The paired positions at which the original token k stands and differs
\* from the corrected token.
DifferingAt(ow, cw, k) == {i \in PairedIndices(ow, cw) : ow[i] = k /\ cw[i] /= k}

\* The paired positions at which the original token k stands.
OccursAt(ow, cw, k) == {i \in PairedIndices(ow, cw) : ow[i] = k}

Last(S) == CHOOSE i \in S : \A j \in S : j <= i

-----------------------------------------------------------------------------
(* Claims about the differ, checked under Spec.                            *)

\* C1: highlight_errors splits both strings on white space and emits, for
\* every index below the length of the shorter token list, the original
\* token when the two tokens are equal character for character (case
\* included) and otherwise the marked fragment of the original and the
\* corrected token; the result is these fragments in order, joined by
\* single spaces.
C1_HighlightFragments ==
    HighlightCalled =>
        LET ow == WordsOf(original)
            cw == WordsOf(corrected)
            expected == [i \in PairedIndices(ow, cw) |-> ExpectedFragment(ow[i], cw[i])]
        IN  /\ highlighted = expected
            /\ result = SingleSpaced(expected)

\* C1 witness: a call in which a token changed only in case is marked and
\* another token is passed through.
C1_Witness ==
    LET ow == WordsOf(original)
        cw == WordsOf(corrected)
    IN  /\ HighlightCalled
        /\ \E i \in PairedIndices(ow, cw) : ow[i] = Tok_a /\ cw[i] = Tok_A
        /\ \E i \in PairedIndices(ow, cw) : ow[i] = cw[i]

\* C2: with token lists of different lengths, highlight_errors emits
\* exactly min(len, len) fragments and its output is the output for the two
\* lists cut to that length; get_corrections takes keys and values only
\* from the paired positions and returns the map of the cut lists (the
\* empty map when the paired positions hold equal tokens).
C2_PairsOnlyUpToShorter ==
    LET ow == WordsOf(original)
        cw == WordsOf(corrected)
        m == Min(Len(ow), Len(cw))
        o_cut == SingleSpaced(Take(ow, m))
        c_cut == SingleSpaced(Take(cw, m))
    IN  /\ HighlightCalled =>
            /\ Len(highlighted) = m
            /\ result = highlight_errors(o_cut, c_cut).value
        /\ DiffCalled =>
            /\ DOMAIN corrections \subseteq {ow[i] : i \in 1..m}
            /\ \A k \in DOMAIN corrections : corrections[k] \in {cw[i] : i \in 1..m}
            /\ corrections = get_corrections(o_cut, c_cut).corrections
            /\ (\A i \in 1..m : ow[i] = cw[i]) => corrections = EmptyDict

\* C2 witness: both functions were called on lists of different lengths
\* whose longer one ends in a token that stands at no paired position.
C2_Witness ==
    LET ow == WordsOf(original)
        cw == WordsOf(corrected)
        m == Min(Len(ow), Len(cw))
    IN  /\ HighlightCalled /\ DiffCalled
        /\ Len(ow) /= Len(cw)
        /\ m >= 1
        /\ \/ Len(cw) > Len(ow) /\ cw[Len(cw)] \notin {cw[i] : i \in 1..m}
           \/ Len(ow) > Len(cw) /\ ow[Len(ow)] \notin {ow[i] : i \in 1..m}

\* C3: the correction map holds only pairs of paired positions whose tokens
\* differ (no key maps to itself), every original token of a differing
\* position is a key, and the map is empty exactly when all paired
\* positions hold equal tokens.
C3_MapOnlyDiffering ==
    DiffCalled =>
        LET ow == WordsOf(original)
            cw == WordsOf(corrected)
            P == PairedIndices(ow, cw)
        IN  /\ \A k \in DOMAIN corrections :
                 \E i \in P : ow[i] = k /\ cw[i] = corrections[k] /\ k /= corrections[k]
            /\ \A i \in P : ow[i] /= cw[i] => ow[i] \in DOMAIN corrections
            /\ (DOMAIN corrections = {}) <=> (\A i \in P : ow[i] = cw[i])

\* C3 witness: a call with an equal and a differing paired position.
C3_Witness ==
    LET ow == WordsOf(original)
        cw == WordsOf(corrected)
        P == PairedIndices(ow, cw)
    IN  /\ DiffCalled
        /\ \E i \in P : ow[i] = cw[i]
        /\ \E i \in P : ow[i] /= cw[i]
        /\ DOMAIN corrections /= {}

\* C4 as stated: when an original token stands at several paired positions
\* and maps to different corrections, the map's value for it is the
\* corrected token paired with the token's last occurrence.
C4_Original_LastOccurrence ==
    DiffCalled =>
        LET ow == WordsOf(original)
            cw == WordsOf(corrected)
        IN  \A k \in {ow[i] : i \in PairedIndices(ow, cw)} :
                (\E i, j \in DifferingAt(ow, cw, k) : cw[i] /= cw[j]) =>
                    /\ k \in DOMAIN corrections
                    /\ corrections[k] = cw[Last(OccursAt(ow, cw, k))]

\* C4 amended: every original token that stands at a paired position where
\* the corrected token differs is a key, and its value is the corrected
\* token paired with its last occurrence among those differing positions:
\* later differing occurrences overwrite earlier ones.
C4_LastDifferingOccurrence ==
    DiffCalled =>
        LET ow == WordsOf(original)
            cw == WordsOf(corrected)
        IN  \A k \in {ow[i] : i \in PairedIndices(ow, cw)} :
                DifferingAt(ow, cw, k) /= {} =>
                    /\ k \in DOMAIN corrections
                    /\ corrections[k] = cw[Last(DifferingAt(ow, cw, k))]

\* C4 witness: a token that maps to two different corrections and then
\* stands unchanged.
C4_Witness ==
    LET ow == WordsOf(original)
        cw == WordsOf(corrected)
    IN  /\ DiffCalled
        /\ \E k \in {ow[i] : i \in PairedIndices(ow, cw)} :
             /\ \E i, j \in DifferingAt(ow, cw, k) : cw[i] /= cw[j]
             /\ Last(OccursAt(ow, cw, k)) \notin DifferingAt(ow, cw, k)

\* C5: the first component get_corrections returns is the whole token list
\* of the corrected string, whatever the original string is.
C5_FullCorrectedTokens ==
    DiffCalled => corrected_tokens = WordsOf(corrected)

\* C5 witness: a call whose corrected string has more tokens than the
\* original.
C5_Witness ==
    /\ DiffCalled
    /\ Len(WordsOf(corrected)) > Len(WordsOf(original))
    /\ Len(WordsOf(original)) >= 1

\* C6: highlight_errors(x, x) is x with its white space normalised to
\* single spaces, with no token marked; it is x itself when x is already
\* single-spaced.
C6_HighlightSelf ==
    (HighlightCalled /\ original = corrected) =>
        LET normal == SingleSpaced(WordsOf(original))
        IN  /\ result = normal
            /\ \A i \in 1..Len(result) : result[i] \notin Markup
            /\ (original = normal) => result = original

\* C6 witness: a call on (x, x) where x has several tokens and white space
\* that is not single spaces.
C6_Witness ==
    /\ HighlightCalled
    /\ original = corrected
    /\ Len(WordsOf(original)) >= 2
    /\ original /= SingleSpaced(WordsOf(original))

\* C7: no call of highlight_errors or get_corrections ends in an exception,
\* and highlight_errors("", "") returns "".
C7_NeverRaises ==
    /\ raised = {}
    /\ (HighlightCalled /\ original = EmptyStr /\ corrected = EmptyStr) =>
           result = EmptyStr

\* C7 witness: both functions returned on a white-space-only corrected
\* string and an original string with tokens.
C7_Witness ==
    /\ HighlightCalled /\ DiffCalled
    /\ Len(corrected) > 0 /\ Len(WordsOf(corrected)) = 0
    /\ Len(WordsOf(original)) >= 2
    /\ raised = {}

-----------------------------------------------------------------------------
(* ConcSpec: calls of the two functions executed statement by statement,   *)
(* interleaved in every order.  Each call has its own frame of locals.     *)

Str_a_a == <<"a", " ", "a">>
Str_A_ab == <<"A", " ", "a", "b">>
ConcInputs == {Str_a_a, Str_A_ab}

\* One list `highlighted` / dict `corrections` shared by all calls (a
\* module-level or default-argument accumulator).
AccOwnerShared(i) == 1

\* The frame that holds the list `highlighted` / the dict `corrections` a
\* call works on: they are locals, created by the call itself.
AccOwner(i) == i

\* A thread enters highlight_errors or get_corrections.
Invoke(i) ==
    /\ frames[i].pc = "idle"
    /\ \E fn \in {"highlight_errors", "get_corrections"}, o \in ConcInputs, c \in ConcInputs :
         frames' = [frames EXCEPT ![i].pc = "split_original",
                                  ![i].fn = fn,
                                  ![i].original = o,
                                  ![i].corrected = c]
    /\ UNCHANGED <<differVars, serverVars>>

\* original_tokens = original.split()
SplitOriginal(i) ==
    /\ frames[i].pc = "split_original"
    /\ frames' = [frames EXCEPT ![i].original_tokens = Split(frames[i].original),
                                ![i].pc = "split_corrected"]
    /\ UNCHANGED <<differVars, serverVars>>

\* corrected_tokens = corrected.split()
SplitCorrected(i) ==
    /\ frames[i].pc = "split_corrected"
    /\ frames' = [frames EXCEPT ![i].corrected_tokens = Split(frames[i].corrected),
                                ![i].pc = "init"]
    /\ UNCHANGED <<differVars, serverVars>>

\* highlighted = []  /  corrections = {}
InitAccumulator(i) ==
    /\ frames[i].pc = "init"
    /\ frames' = IF frames[i].fn = "highlight_errors"
                 THEN [frames EXCEPT ![AccOwner(i)].highlighted = <<>>,
                                     ![i].pc = "loop"]
                 ELSE [frames EXCEPT ![AccOwner(i)].corrections = EmptyDict,
                                     ![i].pc = "loop"]
    /\ UNCHANGED <<differVars, serverVars>>

\* One turn of `for o_token, c_token in zip(...)`, or the loop's end.
LoopStep(i) ==
    /\ frames[i].pc = "loop"
    /\ LET f == frames[i]
           z == Zip(f.original_tokens, f.corrected_tokens)
           a == AccOwner(i)
       IN  IF f.it < Len(z.pairs)
           THEN LET o_token == z.pairs[f.it + 1][1]
                    c_token == z.pairs[f.it + 1][2]
                IN  frames' =
                      IF f.fn = "highlight_errors"
                      THEN [frames EXCEPT
                              ![a].highlighted = HighlightStep(@, o_token, c_token),
                              ![i].it = f.it + 1]
                      ELSE [frames EXCEPT
                              ![a].corrections = CorrectionsStep(@, o_token, c_token),
                              ![i].it = f.it + 1]
           ELSE frames' = [frames EXCEPT ![i].pc = IF z.raises THEN "raised" ELSE "return"]
    /\ UNCHANGED <<differVars, serverVars>>

\* return " ".join(highlighted)  /  return corrected_tokens, corrections
Return(i) ==
    /\ frames[i].pc = "return"
    /\ frames' = IF frames[i].fn = "highlight_errors"
                 THEN [frames EXCEPT
                         ![i].ret_str = Join(frames[AccOwner(i)].highlighted),
                         ![i].pc = "done"]
                 ELSE [frames EXCEPT
                         ![i].ret_tokens = frames[i].corrected_tokens,
                         ![i].ret_corrections = frames[AccOwner(i)].corrections,
                         ![i].pc = "done"]
    /\ UNCHANGED <<differVars, serverVars>>

InvocationStep(i) ==
    \/ Invoke(i)
    \/ SplitOriginal(i)
    \/ SplitCorrected(i)
    \/ InitAccumulator(i)
    \/ LoopStep(i)
    \/ Return(i)

\* C9, first part: under every interleaving each call returns what it
\* returns when run alone on its own arguments.
C9_ReturnsAsAlone ==
    \A i \in Invocations :
        frames[i].pc = "done" =>
            /\ frames[i].fn = "highlight_errors" =>
                 frames[i].ret_str =
                     highlight_errors(frames[i].original, frames[i].corrected).value
            /\ frames[i].fn = "get_corrections" =>
                 LET r == get_corrections(frames[i].original, frames[i].corrected)
                 IN  /\ frames[i].ret_tokens = r.corrected_tokens
                     /\ frames[i].ret_corrections = r.corrections

\* C9, second part: a step of one call leaves every other call's frame as
\* it was.
C9_StepsAreLocal ==
    \A i, j \in Invocations :
        (i /= j /\ InvocationStep(j)) => frames'[i] = frames[i]

\* C9: always, a returned call has returned what it returns alone; every
\* step is local to the frame of the call that takes it; no call raises.
C9_ConcurrentCallsIsolated ==
    /\ []C9_ReturnsAsAlone
    /\ [][C9_StepsAreLocal]_vars
    /\ [](\A i \in Invocations : frames[i].pc /= "raised")

\* C9 witness: one call has returned markup while a second call, on other
\* arguments, has finished its loop and not yet returned.
C9_Witness ==
    \E i, j \in Invocations :
        /\ i /= j
        /\ frames[i].pc = "done" /\ frames[i].fn = "highlight_errors"
        /\ frames[i].it = 2
        /\ frames[i].original /= frames[i].corrected
        /\ frames[j].pc = "return" /\ frames[j].it = 2
        /\ <<frames[j].original, frames[j].corrected>> /=
               <<frames[i].original, frames[i].corrected>>

-----------------------------------------------------------------------------
(* ServerSpec: post_home and correct_text as coroutines of one event loop. *)
(* A coroutine that holds the loop keeps it until it returns, raises or    *)
(* reaches an await.                                                       *)

Str_ab == <<"a", "b">>
Str_A__ab == <<"A", " ", " ", "a", "b">>
ServerTexts == {Str_a_a, Str_ab}
OracleOutputs == {Str_A__ab, Str_a_a}

\* Values of the lang_code field; "xx" is no key of lang_code_to_id.
LangCodes == {"en", "fr_XX", "de_DE", "xx"}
MbartLangCodes == {"fr_XX", "de_DE"}

\* A handler with an await between the write of src_lang and the encoding.
SuspensionPointsAwaitingEncode == {"mbart_encode"}

\* The positions at which a handler awaits: post_home and correct_text are
\* `async def` and their bodies hold no await.
SuspensionPoints == {}

\* The task that holds the event loop after request r has moved to `at`.
Holder(r, at) ==
    IF at \in {"done", "failed"} \cup SuspensionPoints THEN NoTask ELSE {r}

MayRun(r) == running \subseteq {r}

\* The transport parses a request and schedules its handler.
Receive(r) ==
    /\ pc[r] = "new"
    /\ running = NoTask
    /\ \E e \in {"post_home", "correct_text"}, t \in ServerTexts, l \in LangCodes :
         request' = [request EXCEPT ![r] = [endpoint |-> e, text |-> t, lang_code |-> l]]
    /\ pc' = [pc EXCEPT ![r] = "handler"]
    /\ UNCHANGED <<running, mbart_src_lang, encoded_lang, forced_bos,
                   corrected_text, response>>
    /\ UNCHANGED <<differVars, frames>>

\* lang_code == "en": correct_grammar_english(text), an oracle.
correct_grammar_english(r) ==
    /\ pc[r] = "handler"
    /\ MayRun(r)
    /\ request[r].lang_code = "en"
    /\ \E out \in OracleOutputs :
         corrected_text' = [corrected_text EXCEPT ![r] = out]
    /\ pc' = [pc EXCEPT ![r] = "differ"]
    /\ running' = Holder(r, "differ")
    /\ UNCHANGED <<request, mbart_src_lang, encoded_lang, forced_bos, response>>
    /\ UNCHANGED <<differVars, frames>>

\* correct_grammar_mbart, line 35: mbart_tokenizer.src_lang = src_lang
mbart_set_src_lang(r) ==
    /\ pc[r] = "handler"
    /\ MayRun(r)
    /\ request[r].lang_code /= "en"
    /\ mbart_src_lang' = request[r].lang_code
    /\ pc' = [pc EXCEPT ![r] = "mbart_encode"]
    /\ running' = Holder(r, "mbart_encode")
    /\ UNCHANGED <<request, encoded_lang, forced_bos, corrected_text, response>>
    /\ UNCHANGED <<differVars, frames>>

\* correct_grammar_mbart, line 36: the text is encoded under the
\* tokenizer's current src_lang.
mbart_encode(r) ==
    /\ pc[r] = "mbart_encode"
    /\ MayRun(r)
    /\ encoded_lang' = [encoded_lang EXCEPT ![r] = mbart_src_lang]
    /\ pc' = [pc EXCEPT ![r] = "mbart_generate"]
    /\ running' = Holder(r, "mbart_generate")
    /\ UNCHANGED <<request, mbart_src_lang, forced_bos, corrected_text, response>>
    /\ UNCHANGED <<differVars, frames>>

\* correct_grammar_mbart, lines 37-43: generate, forced to begin with
\* lang_code_to_id[src_lang]; a KeyError for a code that is no key.
mbart_generate(r) ==
    /\ pc[r] = "mbart_generate"
    /\ MayRun(r)
    /\ LET known == request[r].lang_code \in MbartLangCodes
           at == IF known THEN "mbart_decode" ELSE "failed"
       IN  /\ forced_bos' = IF known
                            THEN [forced_bos EXCEPT ![r] = request[r].lang_code]
                            ELSE forced_bos
           /\ pc' = [pc EXCEPT ![r] = at]
           /\ running' = Holder(r, at)
    /\ UNCHANGED <<request, mbart_src_lang, encoded_lang, corrected_text, response>>
    /\ UNCHANGED <<differVars, frames>>

\* correct_grammar_mbart, lines 44-45: the decoded text, an oracle.
mbart_decode(r) ==
    /\ pc[r] = "mbart_decode"
    /\ MayRun(r)
    /\ \E out \in OracleOutputs :
         corrected_text' = [corrected_text EXCEPT ![r] = out]
    /\ pc' = [pc EXCEPT ![r] = "differ"]
    /\ running' = Holder(r, "differ")
    /\ UNCHANGED <<request, mbart_src_lang, encoded_lang, forced_bos, response>>
    /\ UNCHANGED <<differVars, frames>>

\* post_home, lines 81-84: the page rendered with the highlighted text.
post_home(r) ==
    /\ pc[r] = "differ"
    /\ MayRun(r)
    /\ request[r].endpoint = "post_home"
    /\ LET h == highlight_errors(request[r].text, corrected_text[r])
           at == IF h.raises THEN "failed" ELSE "done"
       IN  /\ response' = IF h.raises THEN response
                          ELSE [response EXCEPT ![r] =
                                  [kind |-> "html", result |-> h.value,
                                   text |-> request[r].text]]
           /\ pc' = [pc EXCEPT ![r] = at]
           /\ running' = Holder(r, at)
    /\ UNCHANGED <<request, mbart_src_lang, encoded_lang, forced_bos, corrected_text>>
    /\ UNCHANGED <<differVars, frames>>

\* correct_text with the arguments of get_corrections exchanged.
CorrectionResponseSwapped(text, corrected_text_) ==
    LET d == get_corrections(corrected_text_, text)
    IN  [raises |-> d.raises,
         value |-> [kind |-> "json", corrected_text |-> corrected_text_,
                    corrections |-> d.corrections]]

\* correct_text, lines 103-104: the CorrectionResponse.
CorrectionResponse(text, corrected_text_) ==
    LET d == get_corrections(text, corrected_text_)
    IN  [raises |-> d.raises,
         value |-> [kind |-> "json", corrected_text |-> corrected_text_,
                    corrections |-> d.corrections]]

correct_text(r) ==
    /\ pc[r] = "differ"
    /\ MayRun(r)
    /\ request[r].endpoint = "correct_text"
    /\ LET c == CorrectionResponse(request[r].text, corrected_text[r])
           at == IF c.raises THEN "failed" ELSE "done"
       IN  /\ response' = IF c.raises THEN response
                          ELSE [response EXCEPT ![r] = c.value]
           /\ pc' = [pc EXCEPT ![r] = at]
           /\ running' = Holder(r, at)
    /\ UNCHANGED <<request, mbart_src_lang, encoded_lang, forced_bos, corrected_text>>
    /\ UNCHANGED <<differVars, frames>>

\* C8: the JSON handler's response carries the oracle's string unchanged
\* and, as corrections, the correction map of the request text (original)
\* against the oracle's string (corrected).
C8_ApiResponse ==
    \A r \in Requests :
        (pc[r] = "done" /\ request[r].endpoint = "correct_text") =>
            /\ response[r].corrected_text = corrected_text[r]
            /\ response[r].corrections =
                   get_corrections(request[r].text, corrected_text[r]).corrections

\* C8 witness: a JSON request answered with an oracle string that holds a
\* double space and differs from the request text.
C8_Witness ==
    \E r \in Requests :
        /\ pc[r] = "done"
        /\ request[r].endpoint = "correct_text"
        /\ request[r].text = Str_a_a
        /\ corrected_text[r] = Str_A__ab
        /\ DOMAIN response[r].corrections /= {}

\* C10: a request whose lang_code is not "en" is encoded under its own
\* lang_code and generates with it: between its write of
\* mbart_tokenizer.src_lang and its encoding no other request writes.
C10_OwnLangCode ==
    \A r \in Requests :
        /\ pc[r] = "mbart_encode" => mbart_src_lang = request[r].lang_code
        /\ (request[r].lang_code \notin {"en", "none"}
              /\ pc[r] \in {"mbart_generate", "mbart_decode", "differ", "done", "failed"})
             => encoded_lang[r] = request[r].lang_code
        /\ (request[r].lang_code \notin {"en", "none"}
              /\ pc[r] \in {"mbart_decode", "differ", "done"})
             => forced_bos[r] = request[r].lang_code

\* C10 witness: two requests in different languages, neither English, were
\* both encoded; the form handler and the JSON handler each served one.
C10_Witness ==
    \E r, q \in Requests :
        /\ request[r].lang_code = "fr_XX" /\ request[q].lang_code = "de_DE"
        /\ request[r].endpoint = "post_home" /\ request[q].endpoint = "correct_text"
        /\ pc[r] = "done" /\ pc[q] = "done"

-----------------------------------------------------------------------------
(* The specifications.                                                     *)

Next ==
    \/ CallHighlightErrors
    \/ CallGetCorrections

Spec == Init /\ [][Next]_vars

ConcInit == DifferIdle /\ FramesIdle /\ ServerIdle

ConcNext ==
    \/ \E i \in Invocations : Invoke(i)
    \/ \E i \in Invocations : SplitOriginal(i)
    \/ \E i \in Invocations : SplitCorrected(i)
    \/ \E i \in Invocations : InitAccumulator(i)
    \/ \E i \in Invocations : LoopStep(i)
    \/ \E i \in Invocations : Return(i)

ConcSpec == ConcInit /\ [][ConcNext]_vars

ServerInit == DifferIdle /\ FramesIdle /\ ServerIdle

ServerNext ==
    \/ \E r \in Requests : Receive(r)
    \/ \E r \in Requests : correct_grammar_english(r)
    \/ \E r \in Requests : mbart_set_src_lang(r)
    \/ \E r \in Requests : mbart_encode(r)
    \/ \E r \in Requests : mbart_generate(r)
    \/ \E r \in Requests : mbart_decode(r)
    \/ \E r \in Requests : post_home(r)
    \/ \E r \in Requests : correct_text(r)

ServerSpec == ServerInit /\ [][ServerNext]_vars

=============================================================================
